---- MODULE Spec2Model ----
(***************************************************************************)
(* SharedPool (src/src/shared.rs): a shareable, lock-guarded front-end to  *)
(* a canonical table of reference-counted slots.                           *)
(*                                                                         *)
(* SharedPool<T, S> is Arc<Mutex<Pool<Self, S>>>.  Every table operation   *)
(* runs inside with_active_symbols: lock the mutex, fail fatally when it   *)
(* is poisoned, run the table logic, drop the guard.  The table logic      *)
(* (crate::pool::Pool) and the handle (crate::Pooled) live outside         *)
(* shared.rs; they are modelled as the steps a thread takes while it       *)
(* holds the guard, so that the lock discipline of shared.rs is what       *)
(* keeps them indivisible.                                                 *)
(***************************************************************************)
EXTENDS Integers, Sequences, FiniteSets, Bags, TLC

(* ---------------------------- bounds ---------------------------------- *)
\* number of SharedPool front-end values (originals and clones)
MaxPools == 2
\* number of get / get_from_owned / handle-clone calls in one behaviour
MaxCalls == 3

Threads == {"t1", "t2"}
Values == {"abc", "xyz"}
NoThread == "none"

\* every front-end may have a table of its own
Tables == 1..MaxPools
SlotIds == 1..MaxCalls

\* the table of the process-wide GlobalPool<T>, a pool of another kind
GlobalTable == 0
AllTables == Tables \cup {GlobalTable}

VARIABLES
    pools,      \* pools[p]: the table the p-th SharedPool value aliases (self.0)
    origin,     \* origin[p]: the constructed SharedPool that p is, or was cloned from
    slots,      \* slots[tb]: slot id -> [value, count], the table's contents
    nextId,     \* nextId[tb]: identity given to the next slot of table tb
    lock,       \* lock[tb]: the thread that holds the mutex guard, or NoThread
    poisoned,   \* poisoned[tb]: the mutex's poison flag
    pc,         \* pc[t]: where thread t is in its current operation
    op,         \* op[t]: the operation thread t is running
    handles,    \* bag of Pooled handles [tbl, slot, value] at rest with their holders
    hist,       \* hist[tb][s]: [value, created, released] of every slot ever made
    calls       \* number of handle-creating calls started so far

vars == <<pools, origin, slots, nextId, lock, poisoned, pc, op, handles, hist, calls>>

NoOp == [kind |-> "none", tbl |-> 0, value |-> "", slot |-> 0, hit |-> FALSE,
         cow |-> "none", copies |-> 0, pre |-> <<>>]

(* ------------------------ table helpers ------------------------------- *)
\* the slots of table tb whose value equals v under full value comparison
Lookup(tb, v) == {s \in DOMAIN slots[tb] : slots[tb][s].value = v}

\* table tb with slot s's reference count changed by d (a no-op on a
\* slot that is not there)
Bump(tb, s, d) ==
    IF s \in DOMAIN slots[tb]
    THEN [slots EXCEPT ![tb][s].count = @ + d]
    ELSE slots

\* table tb with a new slot s holding v, reference count 1
Inserted(tb, s, v) ==
    [slots EXCEPT ![tb] =
        [x \in DOMAIN slots[tb] \cup {s} |->
            IF x = s THEN [value |-> v, count |-> 1] ELSE slots[tb][x]]]

\* table tb without slot s
Removed(tb, s) ==
    [slots EXCEPT ![tb] = [x \in DOMAIN slots[tb] \ {s} |-> slots[tb][x]]]

\* Cow::into_owned: the value itself, copied first when it was borrowed
IntoOwned(cow, v) == v

\* owned-value copies a miss makes of its candidate
Copies(cow) == IF cow = "Borrowed" THEN 1 ELSE 0

\* a hit that puts an owned candidate in the place of the slot it found
HitReplacesWhenOwned(tb, s, cow) ==
    IF cow = "Owned"
    THEN Inserted(tb, s, slots[tb][s].value)
    ELSE Bump(tb, s, 1)

\* table tb after a hit on slot s: the candidate is dropped, the count raised
HitTable(tb, s, cow) == Bump(tb, s, 1)

\* table tb after a miss: the candidate, made owned, is the new slot s
MissTable(tb, s, cow, v) == Inserted(tb, s, IntoOwned(cow, v))

\* Pool::get as a whole, on table tb as it stands: the table afterwards,
\* the slot of the returned handle, and the copies made of the candidate
PoolGet(tb, cow, v) ==
    LET found == {s \in DOMAIN slots[tb] : slots[tb][s].value = v}
    IN IF found # {}
       THEN LET s == CHOOSE x \in found : TRUE
            IN [table |-> HitTable(tb, s, cow)[tb], slot |-> s, hit |-> TRUE,
                copies |-> 0]
       ELSE [table |-> MissTable(tb, nextId[tb], cow, v)[tb], slot |-> nextId[tb],
             hit |-> FALSE, copies |-> Copies(cow)]

\* an arena that hands out the lowest free index again
ReusedSlotId(tb) == CHOOSE s \in 1..(Cardinality(DOMAIN slots[tb]) + 1) : s \notin DOMAIN slots[tb]

\* the identity of the next slot of table tb: never one used before
NewSlotId(tb) == nextId[tb]

HistCreated(tb, s) ==
    IF s \in 1..Len(hist[tb])
    THEN [hist EXCEPT ![tb][s].created = @ + 1]
    ELSE hist

HistReleased(tb, s) ==
    IF s \in 1..Len(hist[tb])
    THEN [hist EXCEPT ![tb][s].released = @ + 1]
    ELSE hist

Handle(tb, s, v) == [tbl |-> tb, slot |-> s, value |-> v]

(* --------------------------- Init ------------------------------------- *)
\* one pool has been constructed (SharedPool::default()): an empty table
Init ==
    /\ pools = <<1>>
    /\ origin = <<1>>
    /\ slots = [tb \in AllTables |-> <<>>]
    /\ nextId = [tb \in AllTables |-> 1]
    /\ lock = [tb \in AllTables |-> NoThread]
    /\ poisoned = [tb \in AllTables |-> FALSE]
    /\ pc = [t \in Threads |-> "idle"]
    /\ op = [t \in Threads |-> NoOp]
    /\ handles = EmptyBag
    /\ hist = [tb \in AllTables |-> <<>>]
    /\ calls = 0

\* the tables constructed so far
Constructed == {pools[p] : p \in DOMAIN pools}

(* ------------------- SharedPool construction -------------------------- *)
\* with_hasher -> with_capacity_and_hasher: Arc::new(Mutex::new(Pool::..))
with_capacity_and_hasher ==
    /\ Len(pools) < MaxPools
    /\ \E tb \in Tables \ Constructed :
        /\ \A o \in Tables \ Constructed : tb <= o
        /\ pools' = Append(pools, tb)
    /\ origin' = Append(origin, Len(pools) + 1)
    /\ UNCHANGED <<slots, nextId, lock, poisoned, pc, op, handles, hist, calls>>

\* a clone that allocates a table of its own (Arc::new) when one is left
CloneIntoNewTable(p) ==
    IF Tables \ Constructed = {} THEN pools[p]
    ELSE CHOOSE tb \in Tables \ Constructed : TRUE

\* self.0.clone(): the Arc is cloned, not the table
CloneTarget(p) == pools[p]

\* Clone for SharedPool: Self(self.0.clone()) aliases the same table
SharedPoolClone(p) ==
    /\ Len(pools) < MaxPools
    /\ pools' = Append(pools, CloneTarget(p))
    /\ origin' = Append(origin, origin[p])
    /\ UNCHANGED <<slots, nextId, lock, poisoned, pc, op, handles, hist, calls>>

(* ---------------------- entry points ---------------------------------- *)
\* a get that hands the table an owned copy of its own
GetCowOwned == "Owned"

\* get: Cow::Borrowed(borrowed)
GetCow == "Borrowed"

\* a get_from_owned that lends its value: Cow::Borrowed(&owned)
GetFromOwnedCowBorrowed == "Borrowed"

\* get_from_owned: Cow::Owned(owned)
GetFromOwnedCow == "Owned"

\* SharedPool::get(&self, borrowed): with_active_symbols(|symbols|
\*   symbols.get(Cow::Borrowed(borrowed), self))
get(t, p, v) ==
    /\ pc[t] = "idle"
    /\ calls < MaxCalls
    /\ pc' = [pc EXCEPT ![t] = "lock"]
    /\ op' = [op EXCEPT ![t] = [kind |-> "get", tbl |-> pools[p], value |-> v,
                                slot |-> 0, hit |-> FALSE,
                                cow |-> GetCow, copies |-> 0, pre |-> <<>>]]
    /\ calls' = calls + 1
    /\ UNCHANGED <<pools, origin, slots, nextId, lock, poisoned, handles, hist>>

\* SharedPool::get_from_owned(&self, owned): with_active_symbols(|symbols|
\*   symbols.get(Cow::Owned(owned), self))
get_from_owned(t, p, v) ==
    /\ pc[t] = "idle"
    /\ calls < MaxCalls
    /\ pc' = [pc EXCEPT ![t] = "lock"]
    /\ op' = [op EXCEPT ![t] = [kind |-> "get_from_owned", tbl |-> pools[p],
                                value |-> v, slot |-> 0, hit |-> FALSE,
                                cow |-> GetFromOwnedCow, copies |-> 0, pre |-> <<>>]]
    /\ calls' = calls + 1
    /\ UNCHANGED <<pools, origin, slots, nextId, lock, poisoned, handles, hist>>

\* a get on the process-wide default pool, whose locking is its own: the
\* lookup-or-insert is one step here, and its handles live as long as the
\* process
GlobalGet(v) ==
    /\ calls < MaxCalls
    /\ calls' = calls + 1
    /\ LET found == Lookup(GlobalTable, v)
           s == IF found # {} THEN CHOOSE x \in found : TRUE ELSE nextId[GlobalTable]
       IN /\ slots' = IF found # {} THEN Bump(GlobalTable, s, 1)
                      ELSE Inserted(GlobalTable, s, v)
          /\ nextId' = IF found # {} THEN nextId
                       ELSE [nextId EXCEPT ![GlobalTable] = @ + 1]
          /\ hist' = IF found # {} THEN HistCreated(GlobalTable, s)
                     ELSE [hist EXCEPT ![GlobalTable] = Append(@,
                            [value |-> v, created |-> 1, released |-> 0])]
          /\ handles' = handles (+) SetToBag({Handle(GlobalTable, s, v)})
    /\ UNCHANGED <<pools, origin, lock, poisoned, pc, op>>

\* the handles at rest that belong to a SharedPool
SharedHandles == {h \in BagToSet(handles) : h.tbl \in Tables}

\* Pooled::clone(&self): the handle is borrowed for the length of the call,
\* so nobody can drop it meanwhile; a second one is being made
PooledClone(t, h) ==
    /\ pc[t] = "idle"
    /\ calls < MaxCalls
    /\ pc' = [pc EXCEPT ![t] = "lock"]
    /\ op' = [op EXCEPT ![t] = [kind |-> "clone", tbl |-> h.tbl, value |-> h.value,
                                slot |-> h.slot, hit |-> TRUE,
                                cow |-> "none", copies |-> 0, pre |-> <<>>]]
    /\ calls' = calls + 1
    /\ handles' = handles (-) SetToBag({h})
    /\ UNCHANGED <<pools, origin, slots, nextId, lock, poisoned, hist>>

\* Pooled::drop: the handle is gone from its holder, the release is routed
\* to the owning table
PooledDrop(t, h) ==
    /\ pc[t] = "idle"
    /\ pc' = [pc EXCEPT ![t] = "lock"]
    /\ op' = [op EXCEPT ![t] = [kind |-> "release", tbl |-> h.tbl, value |-> h.value,
                                slot |-> h.slot, hit |-> TRUE,
                                cow |-> "none", copies |-> 0, pre |-> <<>>]]
    /\ handles' = handles (-) SetToBag({h})
    /\ UNCHANGED <<pools, origin, slots, nextId, lock, poisoned, hist, calls>>

(* -------------------- with_active_symbols ----------------------------- *)
\* a lock that never waits for the outstanding guard
MutexNeverWaits(tb) == TRUE

\* one mutex that all tables share (a static lock)
OneLockForAll(tb) == \A x \in AllTables : lock[x] = NoThread

\* Mutex::lock blocks until no guard is outstanding
MutexAvailable(tb) == lock[tb] = NoThread

\* a lock whose poison flag is ignored (PoisonError::into_inner)
LockNeverErr(tb) == FALSE

\* LockResult of Mutex::lock: Err(PoisonError) once the mutex is poisoned
LockIsErr(tb) == poisoned[tb]

\* a guard that is not bound to a variable is dropped at once
GuardDropped(t) == NoThread

\* let mut symbols = ...: the guard lives until the end of the function
GuardHolder(t) == t

\* let mut symbols = self.0.lock().expect("poisoned");
\* a poisoned mutex makes expect panic; the guard inside the error is
\* dropped by the unwinding, so the mutex is left unlocked
with_active_symbols_lock(t) ==
    /\ pc[t] = "lock"
    /\ MutexAvailable(op[t].tbl)
    /\ IF LockIsErr(op[t].tbl)
       THEN /\ pc' = [pc EXCEPT ![t] = "panicked"]
            /\ op' = [op EXCEPT ![t] = NoOp]
            /\ UNCHANGED lock
       ELSE /\ pc' = [pc EXCEPT ![t] = "logic"]
            /\ lock' = [lock EXCEPT ![op[t].tbl] = GuardHolder(t)]
            /\ op' = [op EXCEPT ![t].pre = slots[op[t].tbl]]
    /\ UNCHANGED <<pools, origin, slots, nextId, poisoned, handles, hist, calls>>

\* the handles a finished call leaves with its caller: the new one, and
\* for a clone the borrowed one as well
Returned(t) ==
    LET h == SetToBag({Handle(op[t].tbl, op[t].slot, op[t].value)})
    IN CASE op[t].kind \in {"get", "get_from_owned"} -> h
         [] op[t].kind = "clone" -> h (+) h
         [] OTHER -> EmptyBag

\* a guard that is leaked instead of dropped (mem::forget)
GuardLeaked(t) == t

\* the guard is dropped at the end of with_active_symbols: nobody holds it
GuardAfterReturn(t) == NoThread

\* logic(&mut symbols) has returned: the guard goes out of scope
with_active_symbols_unlock(t) ==
    /\ pc[t] = "unlock"
    /\ lock' = [lock EXCEPT ![op[t].tbl] = GuardAfterReturn(t)]
    /\ handles' = handles (+) Returned(t)
    /\ pc' = [pc EXCEPT ![t] = "idle"]
    /\ op' = [op EXCEPT ![t] = NoOp]
    /\ UNCHANGED <<pools, origin, slots, nextId, poisoned, hist, calls>>

\* logic panics while the guard is held: the guard is dropped during the
\* unwinding, which poisons the mutex and unlocks it
Panic(t) ==
    /\ pc[t] \in {"logic", "insert", "remove", "unlock"}
    /\ poisoned' = [poisoned EXCEPT ![op[t].tbl] = TRUE]
    /\ lock' = [lock EXCEPT ![op[t].tbl] = NoThread]
    /\ pc' = [pc EXCEPT ![t] = "panicked"]
    /\ op' = [op EXCEPT ![t] = NoOp]
    /\ UNCHANGED <<pools, origin, slots, nextId, handles, hist, calls>>

(* ------------------ table logic, under the guard ---------------------- *)
\* lookup-or-insert, first half: probe for a slot holding an equal value;
\* a hit raises its count
PoolLookup(t) ==
    /\ pc[t] = "logic"
    /\ op[t].kind \in {"get", "get_from_owned"}
    /\ LET tb == op[t].tbl
           found == Lookup(tb, op[t].value)
       IN IF found # {}
          THEN \E s \in found :
                /\ slots' = HitTable(tb, s, op[t].cow)
                /\ hist' = HistCreated(tb, s)
                /\ op' = [op EXCEPT ![t].slot = s, ![t].hit = TRUE]
                /\ pc' = [pc EXCEPT ![t] = "unlock"]
          ELSE /\ pc' = [pc EXCEPT ![t] = "insert"]
               /\ UNCHANGED <<slots, hist, op>>
    /\ UNCHANGED <<pools, origin, nextId, lock, poisoned, handles, calls>>

\* lookup-or-insert, second half: the miss installs a new slot, count 1
PoolInsert(t) ==
    /\ pc[t] = "insert"
    /\ LET tb == op[t].tbl
           s == NewSlotId(tb)
       IN /\ slots' = MissTable(tb, s, op[t].cow, op[t].value)
          /\ nextId' = [nextId EXCEPT ![tb] = @ + 1]
          /\ hist' = [hist EXCEPT ![tb] = Append(@,
                        [value |-> op[t].value, created |-> 1, released |-> 0])]
          /\ op' = [op EXCEPT ![t].slot = s, ![t].copies = Copies(op[t].cow)]
    /\ pc' = [pc EXCEPT ![t] = "unlock"]
    /\ UNCHANGED <<pools, origin, lock, poisoned, handles, calls>>

\* handle clone: raise the referenced slot's count
PoolClone(t) ==
    /\ pc[t] = "logic"
    /\ op[t].kind = "clone"
    /\ slots' = Bump(op[t].tbl, op[t].slot, 1)
    /\ hist' = HistCreated(op[t].tbl, op[t].slot)
    /\ pc' = [pc EXCEPT ![t] = "unlock"]
    /\ UNCHANGED <<pools, origin, nextId, lock, poisoned, op, handles, calls>>

\* release, first half: lower the named slot's count
PoolRelease(t) ==
    /\ pc[t] = "logic"
    /\ op[t].kind = "release"
    /\ LET tb == op[t].tbl
           s == op[t].slot
       IN /\ slots' = Bump(tb, s, -1)
          /\ hist' = HistReleased(tb, s)
          /\ pc' = [pc EXCEPT ![t] =
                IF s \in DOMAIN slots[tb] /\ slots[tb][s].count = 1
                THEN "remove" ELSE "unlock"]
    /\ UNCHANGED <<pools, origin, nextId, lock, poisoned, op, handles, calls>>

\* release, second half: the count reached zero, the slot is removed
PoolRemove(t) ==
    /\ pc[t] = "remove"
    /\ slots' = Removed(op[t].tbl, op[t].slot)
    /\ pc' = [pc EXCEPT ![t] = "unlock"]
    /\ UNCHANGED <<pools, origin, nextId, lock, poisoned, op, handles, hist, calls>>

(* ------------------------- specification ------------------------------ *)
Next ==
    \/ with_capacity_and_hasher
    \/ \E p \in DOMAIN pools : SharedPoolClone(p)
    \/ \E t \in Threads, p \in DOMAIN pools, v \in Values : get(t, p, v)
    \/ \E t \in Threads, p \in DOMAIN pools, v \in Values : get_from_owned(t, p, v)
    \/ \E v \in Values : GlobalGet(v)
    \/ \E t \in Threads, h \in SharedHandles : PooledClone(t, h)
    \/ \E t \in Threads, h \in SharedHandles : PooledDrop(t, h)
    \/ \E t \in Threads : with_active_symbols_lock(t)
    \/ \E t \in Threads : with_active_symbols_unlock(t)
    \/ \E t \in Threads : Panic(t)
    \/ \E t \in Threads : PoolLookup(t)
    \/ \E t \in Threads : PoolInsert(t)
    \/ \E t \in Threads : PoolClone(t)
    \/ \E t \in Threads : PoolRelease(t)
    \/ \E t \in Threads : PoolRemove(t)

Spec == Init /\ [][Next]_vars

\* the steps of thread t's running operation, none of them a failure
Proceed(t) ==
    \/ with_active_symbols_lock(t)
    \/ PoolLookup(t)
    \/ PoolInsert(t)
    \/ PoolClone(t)
    \/ PoolRelease(t)
    \/ PoolRemove(t)
    \/ with_active_symbols_unlock(t)

\* the program without lock-holder failures
NextNoPanic ==
    \/ with_capacity_and_hasher
    \/ \E p \in DOMAIN pools : SharedPoolClone(p)
    \/ \E t \in Threads, p \in DOMAIN pools, v \in Values : get(t, p, v)
    \/ \E t \in Threads, p \in DOMAIN pools, v \in Values : get_from_owned(t, p, v)
    \/ \E v \in Values : GlobalGet(v)
    \/ \E t \in Threads, h \in SharedHandles : PooledClone(t, h)
    \/ \E t \in Threads, h \in SharedHandles : PooledDrop(t, h)
    \/ \E t \in Threads : Proceed(t)

\* every thread that can take a step of its operation eventually takes one
FairSpec == Init /\ [][NextNoPanic]_vars /\ \A t \in Threads : WF_vars(Proceed(t))

TypeOK ==
    /\ \A p \in DOMAIN pools : pools[p] \in Tables
    /\ \A tb \in AllTables : DOMAIN slots[tb] \subseteq SlotIds
    /\ \A t \in Threads : pc[t] \in {"idle", "lock", "logic", "insert", "remove",
                                     "unlock", "panicked"}
    /\ calls \in 0..MaxCalls

(* ------------------------- vocabulary --------------------------------- *)
\* the handles that exist: those at rest and those a clone has borrowed
Live ==
    BagToSet(handles) \cup
        {Handle(op[t].tbl, op[t].slot, op[t].value) :
            t \in {u \in Threads : op[u].kind = "clone"}}

\* thread t is between acquiring the guard and dropping it
InCS(t) == pc[t] \in {"logic", "insert", "remove", "unlock"}

\* a thread can lock table tb and look at it
Observable(tb) == lock[tb] = NoThread /\ ~poisoned[tb]

\* the slots table tb has ever held
Made(tb) == 1..Len(hist[tb])

\* this step is thread t's get / get_from_owned returning its handle
ReturnsGet(t) ==
    /\ pc[t] = "unlock"
    /\ pc'[t] = "idle"
    /\ op[t].kind \in {"get", "get_from_owned"}

\* the values held by the slots of table tb
Contents(tb) == {slots[tb][s].value : s \in DOMAIN slots[tb]}

\* pool equality that compares what the two tables hold
SameContents(a, b) == Contents(a) = Contents(b)

\* pool equality that takes every two pools of one type for the same pool
AlwaysEq(a, b) == TRUE

\* PartialEq for SharedPool: Arc::ptr_eq(&self.0, &other.0)
ArcPtrEq(a, b) == a = b

\* SharedPool == GlobalPool decided by what the two tables hold
SharedEqGlobalByContents(a) == SameContents(a, GlobalTable)

\* PartialEq<GlobalPool<T>> for SharedPool: false
SharedEqGlobal(a) == FALSE

\* GlobalPool == SharedPool decided by what the two tables hold
GlobalEqSharedByContents(b) == SameContents(GlobalTable, b)

\* PartialEq<SharedPool<T, S>> for GlobalPool<T>: false
GlobalEqShared(b) == FALSE

\* pool == pool for the pools behind tables a and b, by the kinds of the two
PoolEq(a, b) ==
    CASE a \in Tables /\ b \in Tables -> ArcPtrEq(a, b)
      [] a \in Tables /\ b = GlobalTable -> SharedEqGlobal(a)
      [] a = GlobalTable /\ b \in Tables -> GlobalEqShared(b)
      [] OTHER -> TRUE

\* SharedPool == SharedPool for the front-ends p and q
SharedPoolEq(p, q) == ArcPtrEq(pools[p], pools[q])

\* Pooled == Pooled: same pool -> same slot, otherwise full value comparison
PooledEq(h1, h2) ==
    IF PoolEq(h1.tbl, h2.tbl) THEN h1.slot = h2.slot ELSE h1.value = h2.value

(* --------------------------- claims ----------------------------------- *)

\* C1: in every reachable state, whatever the interleaving of get,
\* get_from_owned, handle clone and handle release, no two slots of one
\* table hold equal values.
C1_NoDuplicates ==
    \A tb \in Tables : \A a, b \in DOMAIN slots[tb] :
        slots[tb][a].value = slots[tb][b].value => a = b

\* two slots in one table, one of them shared by two creations
C1_Witness ==
    \E tb \in Tables : \E a, b \in DOMAIN slots[tb] :
        a # b /\ slots[tb][a].count = 2 /\ lock[tb] = NoThread

\* C2: when get / get_from_owned for v returns while a handle for an equal
\* value of the same table is held, the returned handle references the
\* slot of the held one, and is live from then on.
C2_SameSlotWhileHeld ==
    [][\A t \in Threads : ReturnsGet(t) =>
        /\ \A h \in Live :
            (h.tbl = op[t].tbl /\ h.value = op[t].value) => h.slot = op[t].slot
        /\ Handle(op[t].tbl, op[t].slot, op[t].value) \in BagToSet(handles')]_vars

\* a get is about to return a hit on a slot another handle still holds
C2_Witness ==
    \E t \in Threads :
        /\ pc[t] = "unlock"
        /\ op[t].kind \in {"get", "get_from_owned"}
        /\ op[t].hit
        /\ Handle(op[t].tbl, op[t].slot, op[t].value) \in Live

\* C3: for every slot a table ever held, the slot is gone from the table
\* exactly when as many releases as creations have been applied to it; the
\* one exception is the releasing thread's own critical section, between
\* its decrement and its removal.  (A poisoned table is never looked at
\* again.)
C3_RemovedIffAllReleased ==
    \A tb \in Tables : ~poisoned[tb] =>
        \A s \in Made(tb) :
            (\A t \in Threads : ~(pc[t] = "remove" /\ op[t].tbl = tb /\ op[t].slot = s))
            => ((s \notin DOMAIN slots[tb]) <=>
                    (hist[tb][s].released = hist[tb][s].created))

\* a slot that was created twice and released twice is gone
C3_Witness ==
    \E tb \in Tables : \E s \in Made(tb) :
        /\ Observable(tb)
        /\ hist[tb][s].created = 2
        /\ hist[tb][s].released = 2
        /\ s \notin DOMAIN slots[tb]

\* C4: whenever a table can be looked at (nobody holds its lock), every
\* slot present in it has a reference count >= 1; a count of 0 exists
\* only inside the critical section of the release that produced it, which
\* removes the slot before it drops the lock.  (A poisoned table is never
\* looked at again: every lock of it fails.)
C4_PresentIffCounted ==
    \A tb \in Tables : ~poisoned[tb] =>
        \A s \in DOMAIN slots[tb] :
            \/ slots[tb][s].count >= 1
            \/ /\ slots[tb][s].count = 0
               /\ lock[tb] # NoThread
               /\ pc[lock[tb]] = "remove"
               /\ op[lock[tb]].tbl = tb
               /\ op[lock[tb]].slot = s

\* a release has taken a slot out while another slot stays in the table
C4_Witness ==
    \E tb \in Tables : \E s \in Made(tb) :
        /\ Observable(tb)
        /\ s \notin DOMAIN slots[tb]
        /\ DOMAIN slots[tb] # {}

\* C5: a slot all of whose handles have been released is gone, and the
\* handle a later get for an equal value returns never references it: the
\* returned slot is present, holds an equal value and has another
\* identity; when the get missed, it is the newest slot of the table,
\* created by this get alone.
C5_NewIdentityAfterGap ==
    [][\A t \in Threads : ReturnsGet(t) =>
        LET tb == op[t].tbl
            s == op[t].slot
        IN /\ s \in DOMAIN slots[tb]
           /\ slots[tb][s].value = op[t].value
           /\ \A r \in Made(tb) :
                (hist[tb][r].value = op[t].value
                    /\ hist[tb][r].released = hist[tb][r].created)
                => (r # s /\ r \notin DOMAIN slots[tb])
           /\ ~op[t].hit => (hist[tb][s].created = 1 /\ s = nextId[tb] - 1)]_vars

\* a get is about to return a fresh slot for a value whose earlier slot
\* was released
C5_Witness ==
    \E t \in Threads :
        /\ pc[t] = "unlock"
        /\ op[t].kind = "get"
        /\ ~op[t].hit
        /\ \E r \in Made(op[t].tbl) :
            /\ r # op[t].slot
            /\ hist[op[t].tbl][r].value = op[t].value
            /\ r \notin DOMAIN slots[op[t].tbl]

\* C6: in every reachable state, the slot a live handle references is
\* present in the handle's table and holds the value the handle was
\* created with.
C6_LiveHandleSlotPresent ==
    \A h \in Live :
        /\ h.slot \in DOMAIN slots[h.tbl]
        /\ slots[h.tbl][h.slot].value = h.value

\* a handle stays live while a thread removes another slot of its table
C6_Witness ==
    \E h \in Live : \E t \in Threads :
        /\ pc[t] = "remove"
        /\ op[t].tbl = h.tbl
        /\ op[t].slot # h.slot

\* C7: a get racing with the release of the last handle to an equal value
\* ends one of two ways.  Either it hits the slot, whose count is then at
\* least 2, so the release leaves it in the table; or it misses and
\* returns a slot made by itself, count 1.  Either way the returned slot
\* is in the table, and a release removes a slot only when no get has hit
\* it.
C7_ReleaseRacesGet ==
    [][/\ \A t \in Threads : ReturnsGet(t) =>
            LET tb == op[t].tbl
                s == op[t].slot
            IN /\ s \in DOMAIN slots[tb]
               /\ slots[tb][s].value = op[t].value
               /\ \/ op[t].hit /\ slots[tb][s].count >= 2
                  \/ /\ ~op[t].hit
                     /\ slots[tb][s].count = 1
                     /\ hist[tb][s].created = 1
       /\ \A t \in Threads : (pc[t] = "remove" /\ pc'[t] = "unlock") =>
            /\ op[t].slot \notin DOMAIN slots'[op[t].tbl]
            /\ \A u \in Threads \ {t} :
                ~(op[u].tbl = op[t].tbl /\ op[u].slot = op[t].slot /\ InCS(u))]_vars

\* the get went first: it hit the slot whose last handle is being released
C7_Witness ==
    \E t, u \in Threads :
        /\ pc[t] = "unlock" /\ op[t].kind \in {"get", "get_from_owned"} /\ op[t].hit
        /\ pc[u] = "lock" /\ op[u].kind = "release"
        /\ op[u].tbl = op[t].tbl /\ op[u].slot = op[t].slot
        /\ slots[op[t].tbl][op[t].slot].count = 2
        /\ \A h \in Live : ~(h.tbl = op[t].tbl /\ h.slot = op[t].slot)

\* at most one thread is inside a critical section of a table, and it is
\* the one the lock records
MutualExclusion ==
    \A t \in Threads : InCS(t) =>
        /\ lock[op[t].tbl] = t
        /\ \A u \in Threads \ {t} : ~(InCS(u) /\ op[u].tbl = op[t].tbl)

\* a step that changes a table is a step of the thread holding its lock
MutationByHolder ==
    \A tb \in Tables : (slots'[tb] # slots[tb] \/ nextId'[tb] # nextId[tb]) =>
        /\ lock[tb] \in Threads
        /\ InCS(lock[tb])
        /\ op[lock[tb]].tbl = tb
        /\ pc'[lock[tb]] # pc[lock[tb]]
        /\ lock'[tb] = lock[tb]
        /\ \A u \in Threads \ {lock[tb]} : pc'[u] = pc[u] /\ op'[u] = op[u]

\* C8: every mutation of a table is made by the thread that holds the
\* table's lock, at most one thread is inside a critical section of a
\* table at a time, and no other thread acts on the table in between.
C8_MutationsUnderLock == [][MutualExclusion /\ MutualExclusion' /\ MutationByHolder]_vars

\* one thread waits for the lock while another is between the two halves
\* of a lookup-or-insert on the same table
C8_Witness ==
    \E t, u \in Threads :
        /\ pc[t] = "insert"
        /\ pc[u] = "lock"
        /\ op[u].tbl = op[t].tbl
        /\ op[u].value = op[t].value

\* C9: a poisoned table stays poisoned; nothing enters its critical
\* section, changes its slots or obtains a handle of it any more, and
\* every operation that reaches its lock ends in a panic.
C9_PoisonedForever ==
    [][\A tb \in Tables : poisoned[tb] =>
        /\ poisoned'[tb]
        /\ slots'[tb] = slots[tb]
        /\ nextId'[tb] = nextId[tb]
        /\ lock'[tb] = NoThread
        /\ \A h \in BagToSet(handles') :
            h.tbl = tb => CopiesIn(h, handles') <= CopiesIn(h, handles)
        /\ \A t \in Threads :
            (pc[t] = "lock" /\ op[t].tbl = tb /\ pc'[t] # pc[t])
            => pc'[t] = "panicked"]_vars

\* one thread failed under the lock, the other failed on the poisoned lock
C9_Witness ==
    /\ \A t \in Threads : pc[t] = "panicked"
    /\ Cardinality({tb \in Tables : poisoned[tb]}) = 1

\* C10: two live handles of one table are the same slot exactly when
\* their values are equal.
C10_TierOneExact ==
    \A h1, h2 \in Live : h1.tbl = h2.tbl =>
        (PooledEq(h1, h2) <=> h1.value = h2.value)

\* handles of two different slots and two handles of one slot, one table
C10_Witness ==
    \E h1, h2 \in Live :
        /\ h1.tbl = h2.tbl
        /\ h1.slot # h2.slot
        /\ CopiesIn(h1, handles) = 2

\* C11: two handles of different tables (two independently constructed
\* pools, or a SharedPool and the GlobalPool) are never compared by slot:
\* their pools are unequal, and the handles are equal exactly when their
\* values are.
C11_CrossTableByValue ==
    \A h1, h2 \in Live : h1.tbl # h2.tbl =>
        /\ ~PoolEq(h1.tbl, h2.tbl)
        /\ PooledEq(h1, h2) <=> (h1.value = h2.value)

\* a SharedPool handle, a GlobalPool handle of an equal value and a handle
\* of a second SharedPool with another value, all three with one slot id
C11_Witness ==
    \E h1, h2, h3 \in Live :
        /\ h1.tbl \in Tables /\ h3.tbl \in Tables /\ h1.tbl # h3.tbl
        /\ h2.tbl = GlobalTable
        /\ h1.value = h2.value /\ h1.value # h3.value
        /\ h1.slot = h2.slot /\ h1.slot = h3.slot

\* C12: two SharedPool values are equal exactly when one was cloned from
\* the other (or both from one original), whatever their tables hold.
C12_PoolEqIffAliased ==
    \A p, q \in DOMAIN pools :
        SharedPoolEq(p, q) <=> (origin[p] = origin[q])

\* two independently constructed pools whose tables hold the same values
C12_Witness ==
    \E p, q \in DOMAIN pools :
        /\ origin[p] # origin[q]
        /\ Contents(pools[p]) = Contents(pools[q])
        /\ Contents(pools[p]) # {}

\* C13: a SharedPool and the GlobalPool compare unequal in both argument
\* orders, in every state.
C13_NeverEqGlobal ==
    \A p \in DOMAIN pools :
        /\ ~PoolEq(pools[p], GlobalTable)
        /\ ~PoolEq(GlobalTable, pools[p])

\* a SharedPool and the GlobalPool holding the same values
C13_Witness ==
    \E p \in DOMAIN pools :
        /\ Contents(pools[p]) = Contents(GlobalTable)
        /\ Contents(GlobalTable) # {}

\* C14: when get / get_from_owned is about to return, the table has made
\* of the candidate: no copy for a get that hit, one copy for a get that
\* missed, no copy for get_from_owned, hit or miss.
C14_CopiesMade ==
    \A t \in Threads : pc[t] = "unlock" =>
        /\ op[t].kind = "get" => op[t].copies = (IF op[t].hit THEN 0 ELSE 1)
        /\ op[t].kind = "get_from_owned" => op[t].copies = 0

\* a get_from_owned has missed and installed its value as the second slot
\* its table ever held
C14_Witness ==
    \E t \in Threads :
        /\ pc[t] = "unlock"
        /\ op[t].kind = "get_from_owned"
        /\ ~op[t].hit
        /\ op[t].slot = 2

Expected(t) ==
    LET pre == op[t].pre
        s == op[t].slot
        raised == [pre EXCEPT ![s].count = @ + 1]
    IN CASE op[t].kind \in {"get", "get_from_owned"} /\ ~op[t].hit ->
                [x \in DOMAIN pre \cup {s} |->
                    IF x = s THEN [value |-> op[t].value, count |-> 1] ELSE pre[x]]
         [] op[t].kind \in {"get", "get_from_owned"} /\ op[t].hit -> raised
         [] op[t].kind = "clone" -> raised
         [] op[t].kind = "release" /\ pre[s].count = 1 ->
                [x \in DOMAIN pre \ {s} |-> pre[x]]
         [] OTHER -> [pre EXCEPT ![s].count = @ - 1]

\* C16: when an operation has done its work under the lock, the table
\* differs from the one it found only in the slot it concerns: a hit or a
\* clone raised that slot's count by 1, a miss added one slot with count 1,
\* a release lowered that slot's count by 1 and removed the slot exactly
\* when the count was 1.
C16_OnlyItsSlot ==
    \A t \in Threads : pc[t] = "unlock" =>
        /\ op[t].kind \in {"clone", "release"} \/ op[t].hit
            => op[t].slot \in DOMAIN op[t].pre
        /\ (op[t].kind \in {"get", "get_from_owned"} /\ ~op[t].hit)
            => op[t].slot \notin DOMAIN op[t].pre
        /\ slots[op[t].tbl] = Expected(t)

\* a release has lowered a count from 2 to 1 in a table of two slots
C16_Witness ==
    \E t \in Threads :
        /\ pc[t] = "unlock"
        /\ op[t].kind = "release"
        /\ Cardinality(DOMAIN op[t].pre) = 2
        /\ op[t].pre[op[t].slot].count = 2

\* this step changes the slots, the identities, the lock or the poison
\* flag of table tb
TableChanged(tb) ==
    \/ slots'[tb] # slots[tb]
    \/ nextId'[tb] # nextId[tb]
    \/ lock'[tb] # lock[tb]
    \/ poisoned'[tb] # poisoned[tb]

\* a thread waiting for the lock of a table nobody has locked can take it,
\* whatever the locks of the other tables
NeverHeldUp ==
    \A t \in Threads :
        (pc[t] = "lock" /\ lock[op[t].tbl] = NoThread)
            => ENABLED with_active_symbols_lock(t)

\* C17: pools constructed separately have tables of their own; a step
\* changes the slots, lock or poison flag of a table only when it is a
\* step of an operation against that very table, so every other table is
\* left as it was; and a lock held on one table never keeps an operation
\* on another table from taking that table's lock.
C17_PoolsIndependent ==
    [][/\ \A p, q \in DOMAIN pools : origin[p] # origin[q] => pools[p] # pools[q]
       /\ \A tb \in Tables : TableChanged(tb) =>
            \E t \in Threads : pc'[t] # pc[t] /\ op[t].tbl = tb
       /\ NeverHeldUp
       /\ NeverHeldUp']_vars

\* one thread is inside the critical section of a table while the other
\* waits for the free lock of another table that holds a slot as well
C17_Witness ==
    \E t, u \in Threads :
        /\ pc[t] = "insert"
        /\ pc[u] = "lock"
        /\ op[u].tbl \in Tables
        /\ op[u].tbl # op[t].tbl
        /\ lock[op[u].tbl] = NoThread
        /\ slots[op[u].tbl] # <<>>

\* C18: without lock-holder failures and with every thread scheduled
\* fairly, an operation a thread has started returns, and a lock that is
\* held is dropped again.
C18_OperationsComplete ==
    /\ \A t \in Threads : (pc[t] # "idle") ~> (pc[t] = "idle")
    /\ \A tb \in Tables : (lock[tb] # NoThread) ~> (lock[tb] = NoThread)

\* a release waits for the lock while a get on the same table, for the
\* value of the handle being released, is inside its critical section
C18_Witness ==
    \E t, u \in Threads :
        /\ pc[t] = "lock" /\ op[t].kind = "release"
        /\ InCS(u) /\ op[u].kind \in {"get", "get_from_owned"}
        /\ op[u].tbl = op[t].tbl
        /\ op[u].value = op[t].value
        /\ lock[op[t].tbl] = u

\* the handles to slot s of table tb that exist: those at rest, those a
\* clone has borrowed and those whose release waits for the lock
HandleCount(tb, s) ==
    LET atRest == {h \in BagToSet(handles) : h.tbl = tb /\ h.slot = s}
        rest[S \in SUBSET atRest] ==
            IF S = {} THEN 0
            ELSE LET h == CHOOSE x \in S : TRUE
                 IN CopiesIn(h, handles) + rest[S \ {h}]
    IN rest[atRest]
       + Cardinality({t \in Threads :
            /\ pc[t] = "lock"
            /\ op[t].kind \in {"clone", "release"}
            /\ op[t].tbl = tb
            /\ op[t].slot = s})

\* C19: whenever nobody holds a table's lock, the reference count of every
\* slot in it is the number of handles to it that were created and whose
\* release has not been applied yet, and a slot that is not in the table
\* has no such handle.  (A poisoned table is never looked at again.)
C19_CountIsLiveHandles ==
    \A tb \in AllTables : Observable(tb) =>
        /\ \A s \in DOMAIN slots[tb] : slots[tb][s].count = HandleCount(tb, s)
        /\ \A s \in SlotIds \ DOMAIN slots[tb] : HandleCount(tb, s) = 0

\* get_from_owned then get of one value gave count 2; one of the two
\* handles is at rest, the release of the other waits for the free lock
C19_Witness ==
    \E tb \in Tables : \E s \in DOMAIN slots[tb] : \E t \in Threads :
        /\ Observable(tb)
        /\ slots[tb][s].count = 2
        /\ CopiesIn(Handle(tb, s, slots[tb][s].value), handles) = 1
        /\ pc[t] = "lock" /\ op[t].kind = "release"
        /\ op[t].tbl = tb /\ op[t].slot = s

\* a hash of the slot's place instead of its value
HashBySlot(h) == h.tbl * (MaxCalls + 1) + h.slot

\* the hash of a value, fed to the caller's hasher the usual way
ValueHash(v) == CASE v = "abc" -> 1 [] v = "xyz" -> 2 [] OTHER -> 0

\* Hash for Pooled: the hash of the value, whatever the pool
PooledHash(h) == ValueHash(h.value)

\* C20: any two handles that compare equal, by slot within one pool or by
\* value across pools and pool kinds, have the same hash.
C20_HashAgreesWithEq ==
    \A h1, h2 \in Live : PooledEq(h1, h2) => PooledHash(h1) = PooledHash(h2)

\* equal handles of a SharedPool and of the GlobalPool with different slot
\* ids, beside a handle of another value
C20_Witness ==
    \E h1, h2, h3 \in Live :
        /\ h1.tbl \in Tables /\ h2.tbl = GlobalTable
        /\ h1.slot # h2.slot
        /\ PooledEq(h1, h2)
        /\ ~PooledEq(h1, h3)
====
